---- MODULE Spec2Model ----
(***************************************************************************)
(* Password generator (src/project-bolt-sb1-af2mcbow/project/src/App.tsx). *)
(* Strings are sequences of one-character strings; the empty string is     *)
(* <<>>.  Math.random() is a stream of draws r/RandSteps, r in             *)
(* 0..RandSteps-1, which is always in [0,1).                               *)
(***************************************************************************)
EXTENDS Integers, Sequences, FiniteSets, Bags, TLC

\* ------------------------------------------------------------- bounds
\* Math.random() returns one of 0/RandSteps .. (RandSteps-1)/RandSteps.
RandSteps == 2
\* The stream of Math.random() results repeats with this period.
RandPeriod == 5
\* The length slider offers MinLength..MaxLen and the default length.
MaxLen == 5
\* Date.now() returns a value in ClockBase..ClockBase+ClockSpan.
ClockBase == 9
ClockSpan == 1
\* Number of user events (clicks, slider and checkbox changes) in a session.
MaxEvents == 4
\* calculateStrength is applied to strings padded with up to MaxPad characters.
MaxPad == 16

\* ---------------------------------------------------- program constants
MinLength == 4
DefaultLength == 16
BatchSize == 3

\* CHARSET
Uppercase ==
  << "A","B","C","D","E","F","G","H","I","J","K","L","M",
     "N","O","P","Q","R","S","T","U","V","W","X","Y","Z" >>
Lowercase ==
  << "a","b","c","d","e","f","g","h","i","j","k","l","m",
     "n","o","p","q","r","s","t","u","v","w","x","y","z" >>
Numbers == << "0","1","2","3","4","5","6","7","8","9" >>
Symbols ==
  << "!","@","#","$","%","^","&","*","(",")","_","+","-",
     "=","[","]","{","}","|",";",":",",",".","<",">","?" >>
Similar == << "i","l","1","L","o","0","O" >>

\* The value of an array read past its end.
Undefined == "undefined"
\* null (copiedId); no identifier is the empty string.
Null == <<>>

Range(s) == { s[i] : i \in 1..Len(s) }

ClassNames == << "uppercase", "lowercase", "numbers", "symbols" >>

BaseSet(cls) ==
  CASE cls = "uppercase" -> Uppercase
    [] cls = "lowercase" -> Lowercase
    [] cls = "numbers"   -> Numbers
    [] cls = "symbols"   -> Symbols

Included(cfg, cls) ==
  CASE cls = "uppercase" -> cfg.includeUppercase
    [] cls = "lowercase" -> cfg.includeLowercase
    [] cls = "numbers"   -> cfg.includeNumbers
    [] cls = "symbols"   -> cfg.includeSymbols

\* s.split('').filter(char => !CHARSET.similar.includes(char))
SimilarSet == Range(Similar)
NotSimilar(c) == c \notin SimilarSet
FilterSimilar(s) == SelectSeq(s, NotSimilar)

RECURSIVE ConcatIncluded(_, _)
ConcatIncluded(cfg, i) ==
  IF i > Len(ClassNames) THEN <<>>
  ELSE (IF Included(cfg, ClassNames[i]) THEN BaseSet(ClassNames[i]) ELSE <<>>)
       \o ConcatIncluded(cfg, i + 1)

generateCharset(cfg) ==
  LET charset == ConcatIncluded(cfg, 1)
  IN  IF cfg.excludeSimilar THEN FilterSimilar(charset) ELSE charset

\* Mutant: the similar characters are not removed from the class.
GuaranteedPoolUnfiltered(cfg, cls) == BaseSet(cls)

\* The array one guaranteed character is drawn from (lines 88-108): the
\* filtered class for letters and digits, CHARSET.symbols as it is for symbols.
GuaranteedPool(cfg, cls) ==
  IF cls = "symbols" THEN Symbols
  ELSE IF cfg.excludeSimilar THEN FilterSimilar(BaseSet(cls)) ELSE BaseSet(cls)

\* Math.random(): call number k (from 0) of the stream rs.
Draw(rs, k) == rs[k % RandPeriod]

\* Math.floor(Math.random() * n) for the draw r/RandSteps
RandomIndex(r, n) == (r * n) \div RandSteps

\* arr[i], zero-based
At(arr, i) == IF i >= 0 /\ i < Len(arr) THEN arr[i + 1] ELSE Undefined

EnabledClasses(cfg) == SelectSeq(ClassNames, LAMBDA cls : Included(cfg, cls))

\* Mutant: the guaranteed characters are drawn from the whole charset.
GuaranteedCharsFromCharset(cfg, rs, k0) ==
  LET E == EnabledClasses(cfg)
      charset == generateCharset(cfg)
  IN  [ i \in 1..Len(E) |->
          At(charset, RandomIndex(Draw(rs, k0 + i - 1), Len(charset))) ]

\* guaranteedChars after lines 87-108; draws k0, k0+1, ...
GuaranteedChars(cfg, rs, k0) ==
  LET E == EnabledClasses(cfg)
  IN  [ i \in 1..Len(E) |->
          LET chars == GuaranteedPool(cfg, E[i])
          IN  At(chars, RandomIndex(Draw(rs, k0 + i - 1), Len(chars))) ]

\* Mutant: the fill loop runs while i <= config.length.
FillRemainingOneMore(cfg, rs, k0) ==
  LET g == GuaranteedChars(cfg, rs, k0)
      charset == generateCharset(cfg)
      n == IF cfg.length + 1 > Len(g) THEN cfg.length + 1 ELSE Len(g)
  IN  [ i \in 1..n |->
          IF i <= Len(g) THEN g[i]
          ELSE At(charset, RandomIndex(Draw(rs, k0 + i - 1), Len(charset))) ]

\* guaranteedChars after the fill loop, lines 111-113
FillRemaining(cfg, rs, k0) ==
  LET g == GuaranteedChars(cfg, rs, k0)
      charset == generateCharset(cfg)
      n == IF cfg.length > Len(g) THEN cfg.length ELSE Len(g)
  IN  [ i \in 1..n |->
          IF i <= Len(g) THEN g[i]
          ELSE At(charset, RandomIndex(Draw(rs, k0 + i - 1), Len(charset))) ]

\* The shuffle loop, lines 116-119, from index i (zero-based) down to 1.
RECURSIVE ShuffleFrom(_, _, _, _)
ShuffleFrom(arr, i, rs, k) ==
  IF i <= 0 THEN arr
  ELSE LET j == RandomIndex(Draw(rs, k), i + 1)
           swapped == [arr EXCEPT ![i + 1] = arr[j + 1], ![j + 1] = arr[i + 1]]
       IN  ShuffleFrom(swapped, i - 1, rs, k + 1)

Shuffled(cfg, rs, k0) ==
  LET a == FillRemaining(cfg, rs, k0)
  IN  ShuffleFrom(a, Len(a) - 1, rs, k0 + Len(a))

\* Array.prototype.join(''): undefined elements contribute nothing.
Join(arr) == SelectSeq(arr, LAMBDA c : c # Undefined)

\* generatePassword(config), lines 80-122, with Math.random() at call k0
generatePassword(cfg, rs, k0) ==
  IF Len(generateCharset(cfg)) = 0 THEN <<>>
  ELSE Join(Shuffled(cfg, rs, k0))

\* Number of Math.random() calls generatePassword makes.
DrawsUsed(cfg) ==
  IF Len(generateCharset(cfg)) = 0 THEN 0
  ELSE LET g == Len(EnabledClasses(cfg))
           n == IF cfg.length > g THEN cfg.length ELSE g
       IN  2 * n - 1

\* ------------------------------------------------------ calculateStrength
\* The character ranges of the regular expressions, lines 67-73.
ReLower == Range(Lowercase)
ReUpper == Range(Uppercase)
ReDigit == Range(Numbers)
\* '.' matches any character but a line terminator.
LineTerminators == { "\n", "\r" }

\* One character against [a-z], [A-Z], [0-9] or [^a-zA-Z0-9]
Matches(set, c) ==
  CASE set = "a-z" -> c \in ReLower
    [] set = "A-Z" -> c \in ReUpper
    [] set = "0-9" -> c \in ReDigit
    [] set = "^a-zA-Z0-9" -> c \notin (ReLower \cup ReUpper \cup ReDigit)

\* /[set]/.test(p)
Test(p, set) == \E i \in 1..Len(p) : Matches(set, p[i])

\* (?=.*[set]) at position s: a match at m >= s with no line terminator
\* in s..m-1
Lookahead(p, s, set) ==
  \E m \in s..Len(p) :
     /\ Matches(set, p[m])
     /\ \A q \in s..(m - 1) : p[q] \notin LineTerminators

\* /(?=.*[a-z])(?=.*[A-Z])(?=.*[0-9])(?=.*[^a-zA-Z0-9])/.test(p)
TestComplexity(p) ==
  \E s \in 1..(Len(p) + 1) :
     /\ Lookahead(p, s, "a-z")
     /\ Lookahead(p, s, "A-Z")
     /\ Lookahead(p, s, "0-9")
     /\ Lookahead(p, s, "^a-zA-Z0-9")

Min(a, b) == IF a < b THEN a ELSE b

\* Mutant: the length thresholds are strict.
calculateStrengthStrict(p) ==
  LET s1 == IF Len(p) > 8 THEN 20 ELSE 0
      s2 == IF Len(p) > 12 THEN 15 ELSE 0
      s3 == IF Len(p) > 16 THEN 15 ELSE 0
      s4 == IF Test(p, "a-z") THEN 10 ELSE 0
      s5 == IF Test(p, "A-Z") THEN 10 ELSE 0
      s6 == IF Test(p, "0-9") THEN 10 ELSE 0
      s7 == IF Test(p, "^a-zA-Z0-9") THEN 20 ELSE 0
      s8 == IF Len(p) > 8 /\ TestComplexity(p) THEN 10 ELSE 0
  IN  Min(100, s1 + s2 + s3 + s4 + s5 + s6 + s7 + s8)

calculateStrength(p) ==
  LET s1 == IF Len(p) >= 8 THEN 20 ELSE 0
      s2 == IF Len(p) >= 12 THEN 15 ELSE 0
      s3 == IF Len(p) >= 16 THEN 15 ELSE 0
      s4 == IF Test(p, "a-z") THEN 10 ELSE 0
      s5 == IF Test(p, "A-Z") THEN 10 ELSE 0
      s6 == IF Test(p, "0-9") THEN 10 ELSE 0
      s7 == IF Test(p, "^a-zA-Z0-9") THEN 20 ELSE 0
      s8 == IF Len(p) >= 8 /\ TestComplexity(p) THEN 10 ELSE 0
  IN  Min(100, s1 + s2 + s3 + s4 + s5 + s6 + s7 + s8)

\* ------------------------------------------------------------ identifiers
\* String(n) for a non-negative integer
RECURSIVE ToDigits(_)
ToDigits(n) ==
  IF n < 10 THEN << Numbers[n + 1] >>
  ELSE ToDigits(n \div 10) \o << Numbers[(n % 10) + 1] >>

\* Mutant: the identifier is the timestamp alone.
MakeIdNoIndex(now, i) == ToDigits(now)

\* `${Date.now()}-${i}`, line 137
MakeId(now, i) == ToDigits(now) \o << "-" >> \o ToDigits(i)

\* ------------------------------------------------------------- the inputs
Lengths == (MinLength..MaxLen) \cup {DefaultLength}

Configs ==
  [ length : Lengths,
    includeUppercase : BOOLEAN, includeLowercase : BOOLEAN,
    includeNumbers : BOOLEAN, includeSymbols : BOOLEAN,
    excludeSimilar : BOOLEAN ]

\* isConfigValid, line 186
IsConfigValid(cfg) == Len(generateCharset(cfg)) > 0

Streams == [ 0..(RandPeriod - 1) -> 0..(RandSteps - 1) ]
\* The streams a batch is generated with: every call returns the same draw.
BatchStreams == { [ k \in 0..(RandPeriod - 1) |-> r ] : r \in 0..(RandSteps - 1) }
ClockVals == ClockBase..(ClockBase + ClockSpan)
ClockReadings == [ 0..(BatchSize - 1) -> ClockVals ]

\* Lines 135-136 of the loop of handleGenerate: item i (from 0) is generated
\* with Math.random() continuing where item i-1 left it.
RECURSIVE GenerateFrom(_, _, _, _)
GenerateFrom(cfg, rs, i, k) ==
  IF i >= BatchSize THEN <<>>
  ELSE LET password == generatePassword(cfg, rs, k)
           strength == calculateStrength(password)
       IN  << [password |-> password, strength |-> strength] >>
           \o GenerateFrom(cfg, rs, i + 1, k + DrawsUsed(cfg))

\* GenerateFrom tabulated over the configurations and streams of a batch.
GeneratedTable ==
  { [cfg |-> c, rs |-> r, items |-> GenerateFrom(c, r, 0, 0)] :
      c \in Configs, r \in BatchStreams }
Generated(cfg, rs) ==
  (CHOOSE e \in GeneratedTable : e.cfg = cfg /\ e.rs = rs).items

\* newPasswords after the loop, lines 132-140; Date.now() returns ts[i] in
\* iteration i.
NewPasswords(cfg, rs, ts) ==
  LET g == Generated(cfg, rs)
  IN  [ i \in 1..Len(g) |->
          [ password |-> g[i].password, strength |-> g[i].strength,
            id |-> MakeId(ts[i - 1], i - 1) ] ]

\* Date.now() in the loop of the invocation numbered req: the loop runs within
\* one clock tick, and invocations resume at least 300 ms apart.
ResumeClock(req) == [ i \in 0..(BatchSize - 1) |-> ClockBase + req ]

\* ---------------------------------------------------------------- state
VARIABLES
  config,          \* useState<PasswordConfig>
  passwords,       \* useState<GeneratedPassword[]>
  showPasswords,   \* useState<Record<string, boolean>>
  copiedId,        \* useState<string | null>
  isGenerating,    \* useState(false)
  mounted,         \* the mount effect has run
  pendingGen,      \* handleGenerate invocations waiting on the 300 ms timer
  clipboardWrites, \* bag of ids whose clipboard.writeText has not settled
  clearTimers,     \* pending setTimeout(() => setCopiedId(null), 2000)
  origin,          \* origin[i]: the invocation that produced passwords[i]
  batchConfig,     \* the configuration the held batch was generated with
  installValid,    \* isConfigValid when the held batch was installed
  lastCall,        \* how the latest handleGenerate invocation left line 125
  nCalls,          \* handleGenerate invocations so far
  nEvents,         \* user events so far
  fnIn,            \* the argument of a function applied on its own
  fnOut            \* its result

uiVars ==
  << config, passwords, showPasswords, copiedId, isGenerating, mounted,
     pendingGen, clipboardWrites, clearTimers, origin, batchConfig,
     installValid, lastCall, nCalls, nEvents >>
vars == << uiVars, fnIn, fnOut >>

InitialConfig ==
  [ length |-> DefaultLength,
    includeUppercase |-> TRUE, includeLowercase |-> TRUE,
    includeNumbers |-> TRUE, includeSymbols |-> TRUE,
    excludeSimilar |-> FALSE ]

InitUi ==
  /\ config = InitialConfig
  /\ passwords = <<>>
  /\ showPasswords = <<>>
  /\ copiedId = Null
  /\ isGenerating = FALSE
  /\ mounted = FALSE
  /\ pendingGen = <<>>
  /\ clipboardWrites = EmptyBag
  /\ clearTimers = 0
  /\ origin = <<>>
  /\ batchConfig = InitialConfig
  /\ installValid = TRUE
  /\ lastCall = "none"
  /\ nCalls = 0
  /\ nEvents = 0

Init ==
  /\ InitUi
  /\ fnIn = [op |-> "none"]
  /\ fnOut = [done |-> FALSE]

\* ------------------------------------------------------------ operations
\* Mutant: the invocation reads the configuration in force when it resumes.
LiveConfig(inv) == config

\* The configuration an invocation of handleGenerate reads after the await:
\* the one its closure captured.
CapturedConfig(inv) == inv.cfg

\* Mutant: the new batch is appended to the held list.
InstallAppend(prev, new) == prev \o new

\* setPasswords(newPasswords), line 142
InstallPasswords(prev, new) == new

\* Mutant: the button stays enabled while a generation is in flight.
GenerateButtonIgnoresBusy == IsConfigValid(config)

\* disabled={!isConfigValid || isGenerating}, line 291
GenerateButtonEnabled == IsConfigValid(config) /\ ~isGenerating

\* Mutant: handleGenerate without the check of line 125.
HandleGenerateStartUnguarded(cfg) ==
  /\ nCalls' = nCalls + 1
  /\ lastCall' = "awaiting"
  /\ isGenerating' = TRUE
  /\ pendingGen' = Append(pendingGen, [cfg |-> cfg, req |-> nCalls + 1])
  /\ UNCHANGED << config, passwords, showPasswords, copiedId,
                  clipboardWrites, clearTimers, origin, batchConfig,
                  installValid, fnIn, fnOut >>

\* handleGenerate up to its await, lines 124-130
HandleGenerateStart(cfg) ==
  /\ nCalls' = nCalls + 1
  /\ IF Len(generateCharset(cfg)) = 0
     THEN /\ lastCall' = "returned"
          /\ UNCHANGED << isGenerating, pendingGen >>
     ELSE /\ lastCall' = "awaiting"
          /\ isGenerating' = TRUE
          /\ pendingGen' = Append(pendingGen, [cfg |-> cfg, req |-> nCalls + 1])
  /\ UNCHANGED << config, passwords, showPasswords, copiedId,
                  clipboardWrites, clearTimers, origin, batchConfig,
                  installValid, fnIn, fnOut >>

\* useEffect(() => { handleGenerate(); }, []), lines 189-191
MountEffect ==
  /\ ~mounted
  /\ mounted' = TRUE
  /\ HandleGenerateStart(config)
  /\ UNCHANGED nEvents

\* The Generate button, lines 289-291
ClickGenerate ==
  /\ mounted
  /\ nEvents < MaxEvents
  /\ GenerateButtonEnabled
  /\ HandleGenerateStart(config)
  /\ nEvents' = nEvents + 1
  /\ UNCHANGED mounted

\* handleGenerate after its await, lines 132-145
GenerateResume ==
  /\ pendingGen # <<>>
  /\ \E rs \in BatchStreams :
       LET inv == Head(pendingGen)
           newPasswords ==
             NewPasswords(CapturedConfig(inv), rs, ResumeClock(inv.req))
       IN  /\ passwords' = InstallPasswords(passwords, newPasswords)
           /\ origin' = InstallPasswords(origin,
                          [ i \in 1..Len(newPasswords) |-> inv.req ])
           /\ batchConfig' = inv.cfg
  /\ installValid' = IsConfigValid(config)
  /\ showPasswords' = <<>>
  /\ copiedId' = Null
  /\ isGenerating' = FALSE
  /\ pendingGen' = Tail(pendingGen)
  /\ UNCHANGED << config, mounted, clipboardWrites, clearTimers,
                  lastCall, nCalls, nEvents, fnIn, fnOut >>

\* The length slider, lines 229-235
SetLength ==
  /\ mounted
  /\ nEvents < MaxEvents
  /\ \E v \in Lengths \ {config.length} :
       config' = [config EXCEPT !.length = v]
  /\ nEvents' = nEvents + 1
  /\ UNCHANGED << passwords, showPasswords, copiedId, isGenerating, mounted,
                  pendingGen, clipboardWrites, clearTimers, origin,
                  batchConfig, installValid, lastCall, nCalls, fnIn, fnOut >>

ConfigKeys ==
  { "includeUppercase", "includeLowercase", "includeNumbers",
    "includeSymbols", "excludeSimilar" }

\* The checkboxes, lines 255-260 and 274-279
ToggleOption ==
  /\ mounted
  /\ nEvents < MaxEvents
  /\ \E key \in ConfigKeys :
       config' = [config EXCEPT ![key] = ~config[key]]
  /\ nEvents' = nEvents + 1
  /\ UNCHANGED << passwords, showPasswords, copiedId, isGenerating, mounted,
                  pendingGen, clipboardWrites, clearTimers, origin,
                  batchConfig, installValid, lastCall, nCalls, fnIn, fnOut >>

\* copyToClipboard up to its await, lines 148-150 (button at line 358)
ClickCopy ==
  /\ mounted
  /\ nEvents < MaxEvents
  /\ \E i \in 1..Len(passwords) :
       clipboardWrites' = clipboardWrites (+) SetToBag({passwords[i].id})
  /\ nEvents' = nEvents + 1
  /\ UNCHANGED << config, passwords, showPasswords, copiedId, isGenerating,
                  mounted, pendingGen, clearTimers, origin, batchConfig,
                  installValid, lastCall, nCalls, fnIn, fnOut >>

\* copyToClipboard after writeText resolved, lines 151-152
ClipboardResolve ==
  /\ \E id \in BagToSet(clipboardWrites) :
       /\ clipboardWrites' = clipboardWrites (-) SetToBag({id})
       /\ copiedId' = id
  /\ clearTimers' = clearTimers + 1
  /\ UNCHANGED << config, passwords, showPasswords, isGenerating, mounted,
                  pendingGen, origin, batchConfig, installValid, lastCall,
                  nCalls, nEvents, fnIn, fnOut >>

\* copyToClipboard after writeText rejected, lines 153-155
ClipboardReject ==
  /\ \E id \in BagToSet(clipboardWrites) :
       clipboardWrites' = clipboardWrites (-) SetToBag({id})
  /\ UNCHANGED << config, passwords, showPasswords, copiedId, isGenerating,
                  mounted, pendingGen, clearTimers, origin, batchConfig,
                  installValid, lastCall, nCalls, nEvents, fnIn, fnOut >>

\* setTimeout(() => setCopiedId(null), 2000) fires, line 152
ClearTimerFires ==
  /\ clearTimers > 0
  /\ clearTimers' = clearTimers - 1
  /\ copiedId' = Null
  /\ UNCHANGED << config, passwords, showPasswords, isGenerating, mounted,
                  pendingGen, clipboardWrites, origin, batchConfig,
                  installValid, lastCall, nCalls, nEvents, fnIn, fnOut >>

\* togglePasswordVisibility, lines 158-163 (button at line 347)
TogglePasswordVisibility ==
  /\ mounted
  /\ nEvents < MaxEvents
  /\ \E i \in 1..Len(passwords) :
       LET id == passwords[i].id
           prev == IF id \in DOMAIN showPasswords THEN showPasswords[id]
                   ELSE FALSE
       IN  showPasswords' =
             [ k \in DOMAIN showPasswords \cup {id} |->
                 IF k = id THEN ~prev ELSE showPasswords[k] ]
  /\ nEvents' = nEvents + 1
  /\ UNCHANGED << config, passwords, copiedId, isGenerating, mounted,
                  pendingGen, clipboardWrites, clearTimers, origin,
                  batchConfig, installValid, lastCall, nCalls, fnIn, fnOut >>

Next ==
  \/ MountEffect
  \/ ClickGenerate
  \/ GenerateResume
  \/ SetLength
  \/ ToggleOption
  \/ ClickCopy
  \/ ClipboardResolve
  \/ ClipboardReject
  \/ ClearTimerFires
  \/ TogglePasswordVisibility

Spec == Init /\ [][Next]_vars

\* A direct call of handleGenerate while the configuration selects no
\* character.  The button is disabled then (line 291) and the mount effect
\* runs with the initial configuration, so only such a call reaches the
\* return of line 125.
CallHandleGenerateInvalid ==
  /\ mounted
  /\ nCalls <= MaxEvents
  /\ ~IsConfigValid(config)
  /\ HandleGenerateStart(config)
  /\ UNCHANGED << mounted, nEvents >>

NextHandler == Next \/ CallHandleGenerateInvalid

SpecHandler == Init /\ [][NextHandler]_vars

\* The 300 ms timer of a pending invocation fires.
FairSpec == Spec /\ WF_vars(GenerateResume)

\* ------------------------------------------- the functions on their own
\* generatePassword applied to a configuration and a stream of draws
InitGen ==
  /\ InitUi
  /\ fnIn \in { [op |-> "generatePassword", cfg |-> c, rs |-> r] :
                  c \in Configs, r \in Streams }
  /\ fnOut = [done |-> FALSE]

CallGeneratePassword ==
  /\ fnIn.op = "generatePassword"
  /\ ~fnOut.done
  /\ LET cfg == fnIn.cfg
         rs == fnIn.rs
         early == Len(generateCharset(cfg)) = 0
     IN  fnOut' =
           [ done |-> TRUE,
             guaranteed |-> IF early THEN <<>> ELSE GuaranteedChars(cfg, rs, 0),
             filled |-> IF early THEN <<>> ELSE FillRemaining(cfg, rs, 0),
             shuffled |-> IF early THEN <<>> ELSE Shuffled(cfg, rs, 0),
             value |-> generatePassword(cfg, rs, 0) ]
  /\ UNCHANGED << uiVars, fnIn >>

SpecGen == InitGen /\ [][CallGeneratePassword]_vars

\* calculateStrength applied to a string over the class pools
ScoreHeads ==
  { SelectSeq(<< "A", "a", "1", "!" >>, LAMBDA c : c \in K) :
      K \in SUBSET { "A", "a", "1", "!" } }
ScorePads == { [ i \in 1..n |-> c ] : n \in 0..MaxPad, c \in { "a", "Z", "7", "?" } }
ScoreInputs == { h \o t : h \in ScoreHeads, t \in ScorePads }

InitScore ==
  /\ InitUi
  /\ fnIn \in { [op |-> "calculateStrength", p |-> p] : p \in ScoreInputs }
  /\ fnOut = [done |-> FALSE]

CallCalculateStrength ==
  /\ fnIn.op = "calculateStrength"
  /\ ~fnOut.done
  /\ fnOut' = [done |-> TRUE, value |-> calculateStrength(fnIn.p)]
  /\ UNCHANGED << uiVars, fnIn >>

SpecScore == InitScore /\ [][CallCalculateStrength]_vars

\* The loop of handleGenerate applied to a valid configuration, a stream of
\* draws and the three readings of the clock
InitBatch ==
  /\ InitUi
  /\ fnIn \in { [op |-> "newPasswords", cfg |-> c, rs |-> r, ts |-> t] :
                  c \in { x \in Configs : IsConfigValid(x) },
                  r \in BatchStreams, t \in ClockReadings }
  /\ fnOut = [done |-> FALSE]

CallNewPasswords ==
  /\ fnIn.op = "newPasswords"
  /\ ~fnOut.done
  /\ fnOut' = [done |-> TRUE, value |-> NewPasswords(fnIn.cfg, fnIn.rs, fnIn.ts)]
  /\ UNCHANGED << uiVars, fnIn >>

SpecBatch == InitBatch /\ [][CallNewPasswords]_vars

\* ---------------------------------------------------------------- claims
\* A valid configuration: length in 4..50 and at least one class enabled.
ValidConfig(cfg) ==
  /\ cfg.length \in 4..50
  /\ \E cls \in Range(ClassNames) : Included(cfg, cls)

SimilarChars == { "i", "l", "1", "L", "o", "0", "O" }

\* The filtered pool of a class: its base set minus the similar set when
\* excludeSimilar is set.
UppercaseChars == Range(Uppercase)
LowercaseChars == Range(Lowercase)
NumberChars == Range(Numbers)
SymbolChars == Range(Symbols)
BaseChars(cls) ==
  CASE cls = "uppercase" -> UppercaseChars
    [] cls = "lowercase" -> LowercaseChars
    [] cls = "numbers"   -> NumberChars
    [] cls = "symbols"   -> SymbolChars
FilteredPool(cfg, cls) ==
  BaseChars(cls) \ (IF cfg.excludeSimilar THEN SimilarChars ELSE {})

EnabledSet(cfg) == { cls \in Range(ClassNames) : Included(cfg, cls) }

UnionPool(cfg) == UNION { FilteredPool(cfg, cls) : cls \in EnabledSet(cfg) }

Max(a, b) == IF a > b THEN a ELSE b

Covers(cfg, p) ==
  \A cls \in EnabledSet(cfg) : Range(p) \cap FilteredPool(cfg, cls) # {}

Within(cfg, arr) ==
  LET pool == UnionPool(cfg)
  IN  \A i \in 1..Len(arr) :
         /\ arr[i] # Undefined
         /\ arr[i] \in pool
         /\ cfg.excludeSimilar => arr[i] \notin SimilarChars

GenDone == fnIn.op = "generatePassword" /\ fnOut.done

\* C1: for every valid configuration and every outcome of the draws, the
\* string generatePassword returns contains at least one character of the
\* filtered pool of each enabled class.
C1_ClassCoverage ==
  (GenDone /\ ValidConfig(fnIn.cfg)) => Covers(fnIn.cfg, fnOut.value)

C1_Witness ==
  /\ GenDone
  /\ Cardinality(EnabledSet(fnIn.cfg)) = 4
  /\ fnIn.cfg.excludeSimilar
  /\ fnIn.cfg.length > 4

\* C2: for every valid configuration and every outcome of the draws, every
\* character of the output, guaranteed or filled, before and after the
\* shuffle, is in the union of the enabled filtered pools; none is a similar
\* character when excludeSimilar is set, and no position holds an undefined
\* draw.
C2_PoolMembership ==
  (GenDone /\ ValidConfig(fnIn.cfg)) =>
     /\ Within(fnIn.cfg, fnOut.guaranteed)
     /\ Within(fnIn.cfg, fnOut.filled)
     /\ Within(fnIn.cfg, fnOut.shuffled)
     /\ Within(fnIn.cfg, fnOut.value)

C2_Witness ==
  /\ GenDone
  /\ fnIn.cfg.excludeSimilar
  /\ fnIn.cfg.includeNumbers /\ fnIn.cfg.includeLowercase
  /\ fnOut.shuffled # fnOut.filled
  /\ Len(fnOut.filled) > Len(fnOut.guaranteed)

\* C3: for every valid configuration and every outcome of the draws, the
\* output has max(config.length, number of enabled classes) characters: the
\* fill loop adds config.length minus the guaranteed characters when that is
\* positive and nothing otherwise, nothing is truncated, and the shuffle
\* keeps the length.
C3_OutputLength ==
  (GenDone /\ ValidConfig(fnIn.cfg)) =>
     LET g == Cardinality(EnabledSet(fnIn.cfg))
     IN  /\ Len(fnOut.value) = Max(fnIn.cfg.length, g)
         /\ Len(fnOut.guaranteed) = g
         /\ Len(fnOut.filled) - Len(fnOut.guaranteed)
              = Max(fnIn.cfg.length - Len(fnOut.guaranteed), 0)
         /\ Len(fnOut.shuffled) = Len(fnOut.filled)
         /\ Len(fnOut.value) = Len(fnOut.shuffled)

C3_Witness ==
  /\ GenDone
  /\ Cardinality(EnabledSet(fnIn.cfg)) = fnIn.cfg.length
  /\ Len(fnOut.filled) = Len(fnOut.guaranteed)

\* The score the scoring rule gives a string.
RuleScore(p) ==
  LET n == Len(p)
      lower == Range(p) \cap ReLower # {}
      upper == Range(p) \cap ReUpper # {}
      digit == Range(p) \cap ReDigit # {}
      other == Range(p) \ (ReLower \cup ReUpper \cup ReDigit) # {}
      S == (IF n >= 8 THEN 20 ELSE 0) + (IF n >= 12 THEN 15 ELSE 0)
           + (IF n >= 16 THEN 15 ELSE 0)
           + (IF lower THEN 10 ELSE 0) + (IF upper THEN 10 ELSE 0)
           + (IF digit THEN 10 ELSE 0) + (IF other THEN 20 ELSE 0)
           + (IF n >= 8 /\ lower /\ upper /\ digit /\ other THEN 10 ELSE 0)
  IN  Min(100, S)

ScoreDone == fnIn.op = "calculateStrength" /\ fnOut.done

BatchDone == fnIn.op = "newPasswords" /\ fnOut.done

\* C6: a generate request with a valid configuration yields exactly 3 items
\* with pairwise distinct ids, whatever the clock returns in the loop, and
\* each item's strength is calculateStrength of that item's password.
C6_BatchIds ==
  BatchDone =>
     /\ Len(fnOut.value) = 3
     /\ \A i, j \in 1..Len(fnOut.value) :
          i # j => fnOut.value[i].id # fnOut.value[j].id
     /\ \A i \in 1..Len(fnOut.value) :
          fnOut.value[i].strength = calculateStrength(fnOut.value[i].password)

C6_Witness ==
  /\ BatchDone
  /\ fnIn.ts[0] = fnIn.ts[1]
  /\ fnIn.ts[2] < fnIn.ts[1]

\* C7: the held list is empty or one complete batch of 3 items that a single
\* generate request produced, and no invocation reaches generation with a
\* configuration that was not validated.
C7_AtomicSingleBatch ==
  /\ Len(origin) = Len(passwords)
  /\ \/ passwords = <<>>
     \/ /\ Len(passwords) = 3
        /\ \A i, j \in 1..Len(origin) : origin[i] = origin[j]
  /\ \A k \in 1..Len(pendingGen) : IsConfigValid(pendingGen[k].cfg)

C7_Witness ==
  /\ Len(passwords) = 3
  /\ origin[1] = 2

\* C8: every held item has a non-empty password that satisfies length,
\* coverage and membership for the configuration in force when its request
\* was made, whatever the configuration became during the delay.
C8_ConfigSnapshot ==
  \A i \in 1..Len(passwords) :
     LET p == passwords[i].password
     IN  /\ p # <<>>
         /\ Len(p) = Max(batchConfig.length, Cardinality(EnabledSet(batchConfig)))
         /\ Covers(batchConfig, p)
         /\ Within(batchConfig, p)

C8_Witness ==
  /\ passwords # <<>>
  /\ ~installValid
  /\ Len(passwords[1].password) = DefaultLength

\* C9: at most one handleGenerate invocation is pending, isGenerating is true
\* while one is, and every pending invocation eventually installs its batch
\* and sets isGenerating back to false.
C9_SingleInFlight ==
  /\ [](Len(pendingGen) <= 1 /\ (pendingGen # <<>> => isGenerating))
  /\ [][ (pendingGen # <<>> /\ pendingGen' # pendingGen) =>
          /\ pendingGen' = <<>>
          /\ ~isGenerating'
          /\ Len(passwords') = 3
          /\ \A i \in 1..Len(origin') : origin'[i] = Head(pendingGen).req
      ]_vars
  /\ (pendingGen # <<>>) ~> (pendingGen = <<>> /\ ~isGenerating)

C9_Witness ==
  /\ Len(pendingGen) = 1
  /\ isGenerating
  /\ Head(pendingGen).req = 2
  /\ passwords # <<>>

HeldIds == { passwords[i].id : i \in 1..Len(passwords) }

\* C10: copiedId is null or the id of an item of the held batch, and the keys
\* of showPasswords are ids of items of the held batch.
C10_CopiedInBatch ==
  /\ copiedId = Null \/ copiedId \in HeldIds
  /\ DOMAIN showPasswords \subseteq HeldIds

====
